---- MODULE Spec2Model ----
(***************************************************************************)
(* A model of wagtail_meilisearch/backend.py: the per-model index manager  *)
(* (MeiliSearchModelIndex), the rebuilder, the search results pipeline     *)
(* (MeiliSearchResults._do_search / _do_count) and the backend facade      *)
(* (MeiliSearchBackend), run against a model of the remote MeiliSearch     *)
(* service and of the Django datastore.                                    *)
(***************************************************************************)
EXTENDS Integers, Sequences, FiniteSets, TLC

VARIABLES
    remote,     \* the remote service: uid -> [exists, docs]
    db,         \* primary keys the datastore holds when the queryset is evaluated
    appModels,  \* apps.get_models(): the registry order of the models
    last,       \* the last facade call, how it ended, the documents it removed
    pc,         \* position of the search request in flight
    req,        \* the search request: query, model, order_by_relevance, count?
    todo,       \* models still to query in the fan-out loop
    results,    \* the working list of hits (_do_search's `results`)
    output,     \* primary keys returned by _do_search, in order
    window,     \* the [start:stop] the results object was evaluated with
    counted,    \* value returned by _do_count
    calls,      \* remote calls made by the request in flight
    dbReads,    \* datastore queries made by the request in flight
    cpc,        \* concurrent callers of _set_index: position of each
    cmodel      \* concurrent callers of _set_index: the model of each

vars == <<remote, db, appModels, last, pc, req, todo, results, output, window,
          counted, calls, dbReads, cpc, cmodel>>

reqVars == <<pc, req, todo, results, output, window, counted, calls, dbReads>>
raceVars == <<cpc, cmodel>>

-----------------------------------------------------------------------------
(* Bounds of the model *)

\* objects have primary keys 1..MaxId
MaxId == 3
\* slices [start:stop] are taken with 0 <= start <= stop <= MaxStop, or no stop
MaxStop == 2
\* number of concurrent callers of _set_index
NumCallers == 2

-----------------------------------------------------------------------------
(* The Django models and the objects of the datastore *)

Models == {"Article", "BlogPost", "Memo"}

\* wagtail.search.index.class_is_indexed: Memo declares no search fields
class_is_indexed(model) == model \in {"Article", "BlogPost"}

IndexedModels == {m \in Models : class_is_indexed(m)}

\* issubclass(a, b): BlogPost is a multi-table child of Article
issubclass(a, b) == a = b \/ (a = "BlogPost" /\ b = "Article")

\* model.get_search_fields(), in declaration order
search_fields(model) ==
    IF model = "BlogPost" THEN <<"title", "body">>
    ELSE IF model = "Article" THEN <<"title">>
    ELSE <<>>

\* model._meta.label, "app_label.ObjectName", as its sequence of parts
meta_label(model) == <<"cms", ".", model>>

Ids == 1 .. MaxId

\* type(obj) of the object with primary key id
TypeOf(id) == IF id % 2 = 1 THEN "BlogPost" ELSE "Article"

\* The query strings; only "hello" occurs in the objects' text.
Queries == {"", "hello", "zzz"}

Span(s, l) == [start |-> s, length |-> l]

\* Where the term "hello" occurs in each field of the object id.
Occurrences(id, field) ==
    IF id % 4 = 1 THEN <<Span(0, 5)>>
    ELSE IF id % 4 = 2 THEN (IF field = "title" THEN <<Span(0, 5), Span(12, 5)>> ELSE <<>>)
    ELSE IF id % 4 = 3 THEN (IF field = "title" THEN <<Span(0, 5)>> ELSE <<>>)
    ELSE (IF field = "body" THEN <<Span(3, 5)>> ELSE <<>>)

\* the objects a queryset over model ranges over (children are rows of the parent)
InstancesOf(model) == {id \in Ids : issubclass(TypeOf(id), model)}

-----------------------------------------------------------------------------
(* MeiliSearchModelIndex._get_label *)

_get_label(model) ==
    LET label == meta_label(model)
    IN  [i \in DOMAIN label |-> IF label[i] = "." THEN "-" ELSE label[i]]

Uids == {_get_label(m) : m \in IndexedModels}

\* the model whose documents the index uid holds
ModelOfUid(uid) == CHOOSE m \in IndexedModels : _get_label(m) = uid

-----------------------------------------------------------------------------
(* The remote service. An index holds documents keyed by primary key; a     *)
(* document was built by _create_document from the fields of the index's   *)
(* model, so the index state is the set of primary keys it holds.          *)

NoIndex == [exists |-> FALSE, docs |-> {}]
EmptyIndex == [exists |-> TRUE, docs |-> {}]

\* the remote calls; net names the calls that fail in transit during one operation
NetKinds == {"get_settings", "create_index", "delete_index", "add_documents",
             "delete_document", "search"}

\* client.get_index(label).get_settings() raises
GetSettingsRaises(r, uid, net) == ~r[uid].exists \/ "get_settings" \in net

\* client.create_index(uid=label, primary_key='id') raises: the uid is taken
CreateIndexRaises(r, uid, net) == r[uid].exists \/ "create_index" \in net

\* index.delete() raises
DeleteIndexRaises(r, uid, net) == ~r[uid].exists \/ "delete_index" \in net

\* index.add_documents(docs) raises
AddDocumentsRaises(r, uid, net) == ~r[uid].exists \/ "add_documents" \in net

\* index.delete_document(id) raises
DeleteDocumentRaises(r, uid, net) == ~r[uid].exists \/ "delete_document" \in net

\* index.search(query, params) raises
SearchRaises(r, uid, net) == ~r[uid].exists \/ "search" \in net

RemoteCreate(r, uid) == [r EXCEPT ![uid] = EmptyIndex]
RemoteDelete(r, uid) == [r EXCEPT ![uid] = NoIndex]
RemoteAdd(r, uid, ids) == [r EXCEPT ![uid].docs = @ \cup ids]
RemoteRemove(r, uid, id) == [r EXCEPT ![uid].docs = @ \ {id}]

\* '_matchesInfo' of document id in the index of model for query: the fields of
\* the index's model in which the query occurs, each with its spans
MatchesInfo(model, id, query) ==
    IF query # "hello" THEN <<>>
    ELSE LET fs == search_fields(model)
             hit(i) == Occurrences(id, fs[i]) # <<>>
             RECURSIVE build(_)
             build(i) ==
                 IF i > Len(fs) THEN <<>>
                 ELSE (IF hit(i)
                       THEN <<[field |-> fs[i], spans |-> Occurrences(id, fs[i])]>>
                       ELSE <<>>) \o build(i + 1)
         IN  build(1)

\* rv['hits'] of index.search(query): the matching documents, by primary key
RECURSIVE HitsFrom(_, _, _, _)
HitsFrom(model, docs, query, id) ==
    IF id > MaxId THEN <<>>
    ELSE (IF id \in docs /\ MatchesInfo(model, id, query) # <<>>
          THEN <<[id |-> id, matchesInfo |-> MatchesInfo(model, id, query)]>>
          ELSE <<>>) \o HitsFrom(model, docs, query, id + 1)

RemoteSearch(r, uid, query) == HitsFrom(ModelOfUid(uid), r[uid].docs, query, 1)

-----------------------------------------------------------------------------
(* MeiliSearchModelIndex._set_index, as run by __init__ *)

NoHandle == <<>>

SetIndexResult(r, ok, raised, handle) ==
    [remote |-> r, ok |-> ok, raised |-> raised, handle |-> handle]

_set_index(r, model, net) ==
    LET uid == _get_label(model)
    IN  IF GetSettingsRaises(r, uid, net)
        THEN IF CreateIndexRaises(r, uid, net)
             THEN SetIndexResult(r, FALSE, {"get_settings", "create_index"}, NoHandle)
             ELSE SetIndexResult(RemoteCreate(r, uid), TRUE, {"get_settings"}, uid)
        ELSE SetIndexResult(r, TRUE, {}, uid)

\* MeiliSearchBackend.get_index_for_model: MeiliSearchModelIndex(self, model)
get_index_for_model(r, model, net) == _set_index(r, model, net)

-----------------------------------------------------------------------------
(* The facade operations, each computed on the remote state r. A result is  *)
(* the new remote state, whether the call returned or raised, the remote   *)
(* calls that raised during it, and the handle obtained.                   *)

OpResult(r, ok, raised, handle) ==
    [remote |-> r, outcome |-> IF ok THEN "ok" ELSE "error",
     raised |-> raised, handle |-> handle]

Propagate(res) == OpResult(res.remote, FALSE, res.raised, NoHandle)

\* MeiliSearchBackend.add_type: get_index_for_model(model).add_model(model)
add_type(r, model, net) ==
    LET idx == get_index_for_model(r, model, net)
    IN  IF ~idx.ok THEN Propagate(idx)
        ELSE OpResult(idx.remote, TRUE, idx.raised, idx.handle)

\* an add_items that swallows what add_documents raises
add_items_swallow(idx, ids, net) ==
    IF AddDocumentsRaises(idx.remote, idx.handle, net)
    THEN OpResult(idx.remote, TRUE, idx.raised \cup {"add_documents"}, idx.handle)
    ELSE OpResult(RemoteAdd(idx.remote, idx.handle, ids), TRUE, idx.raised, idx.handle)

\* MeiliSearchModelIndex.add_items (add_item is the one-document case)
add_items(idx, ids, net) ==
    IF AddDocumentsRaises(idx.remote, idx.handle, net)
    THEN OpResult(idx.remote, FALSE, idx.raised \cup {"add_documents"}, NoHandle)
    ELSE OpResult(RemoteAdd(idx.remote, idx.handle, ids), TRUE, idx.raised, idx.handle)

\* a delete_item that calls index.delete() instead of index.delete_document(id)
delete_item_drops_index(idx, id, net) ==
    IF DeleteDocumentRaises(idx.remote, idx.handle, net)
    THEN OpResult(idx.remote, FALSE, idx.raised \cup {"delete_document"}, NoHandle)
    ELSE OpResult(RemoteDelete(idx.remote, idx.handle), TRUE, idx.raised, idx.handle)

\* MeiliSearchModelIndex.delete_item
delete_item(idx, id, net) ==
    IF DeleteDocumentRaises(idx.remote, idx.handle, net)
    THEN OpResult(idx.remote, FALSE, idx.raised \cup {"delete_document"}, NoHandle)
    ELSE OpResult(RemoteRemove(idx.remote, idx.handle, id), TRUE, idx.raised, idx.handle)

\* MeiliSearchBackend.add: get_index_for_model(type(obj)).add_item(obj)
add(r, id, net) ==
    LET idx == get_index_for_model(r, TypeOf(id), net)
    IN  IF ~idx.ok THEN Propagate(idx) ELSE add_items(idx, {id}, net)

\* MeiliSearchBackend.add_bulk: get_index_for_model(model).add_items(model, obj_list)
add_bulk(r, model, ids, net) ==
    LET idx == get_index_for_model(r, model, net)
    IN  IF ~idx.ok THEN Propagate(idx) ELSE add_items(idx, ids, net)

\* MeiliSearchBackend.delete: get_index_for_model(type(obj)).delete_item(obj)
delete(r, id, net) ==
    LET idx == get_index_for_model(r, TypeOf(id), net)
    IN  IF ~idx.ok THEN Propagate(idx) ELSE delete_item(idx, id, net)

\* get_indexed_models(), in registry order
get_indexed_models(registry) == SelectSeq(registry, class_is_indexed)

\* MeiliSearchBackend.refresh_index: an index per indexed model, refresh() is a no-op
RECURSIVE refresh_from(_, _, _, _)
refresh_from(r, models, net, raised) ==
    IF models = <<>> THEN OpResult(r, TRUE, raised, NoHandle)
    ELSE LET idx == get_index_for_model(r, Head(models), net)
         IN  IF ~idx.ok THEN OpResult(idx.remote, FALSE, raised \cup idx.raised, NoHandle)
             ELSE refresh_from(idx.remote, Tail(models), net, raised \cup idx.raised)

refresh_index(r, registry, net) == refresh_from(r, get_indexed_models(registry), net, {})

\* a rebuild that forgot to delete the old index
rebuild_without_delete(r, model, net) ==
    LET idx == get_index_for_model(r, model, net)
    IN  IF ~idx.ok THEN Propagate(idx)
        ELSE OpResult(idx.remote, TRUE, idx.raised, idx.handle)

\* MeiliSearchRebuilder.start, MeiliSearchBackend._refresh and
\* MeiliSearchModelIndex._rebuild: delete the index, then get-or-create it
rebuild(r, model, net) ==
    LET uid == _get_label(model)
    IN  IF DeleteIndexRaises(r, uid, net)
        THEN OpResult(r, FALSE, {"delete_index"}, NoHandle)
        ELSE LET idx == get_index_for_model(RemoteDelete(r, uid), model, net)
             IN  IF ~idx.ok THEN Propagate(idx)
                 ELSE OpResult(idx.remote, TRUE, idx.raised, idx.handle)

-----------------------------------------------------------------------------
(* The facade as actions: one call at a time, none while a search runs *)

Called(op, model, res) ==
    /\ remote' = res.remote
    /\ last' = [op |-> op, model |-> model, outcome |-> res.outcome,
                raised |-> res.raised, handle |-> res.handle,
                dropped |-> UNION {remote[uid].docs \ res.remote[uid].docs : uid \in Uids}]
    /\ UNCHANGED <<db, appModels, reqVars, raceVars>>

AddType ==
    /\ pc = "Idle"
    /\ \E m \in IndexedModels, net \in SUBSET {"get_settings", "create_index"} :
           Called("add_type", m, add_type(remote, m, net))

Add ==
    /\ pc = "Idle"
    /\ \E id \in Ids, net \in SUBSET {"get_settings", "create_index", "add_documents"} :
           Called("add", TypeOf(id), add(remote, id, net))

AddBulk ==
    /\ pc = "Idle"
    /\ \E m \in IndexedModels, net \in SUBSET {"get_settings", "create_index", "add_documents"} :
           \E ids \in SUBSET InstancesOf(m) :
               Called("add_bulk", m, add_bulk(remote, m, ids, net))

Delete ==
    /\ pc = "Idle"
    /\ \E id \in Ids, net \in SUBSET {"get_settings", "create_index", "delete_document"} :
           Called("delete", TypeOf(id), delete(remote, id, net))

RefreshIndex ==
    /\ pc = "Idle"
    /\ \E net \in SUBSET {"get_settings", "create_index"} :
           Called("refresh_index", "", refresh_index(remote, appModels, net))

Rebuild ==
    /\ pc = "Idle"
    /\ \E m \in IndexedModels, net \in SUBSET {"delete_index", "get_settings", "create_index"} :
           Called("rebuild", m, rebuild(remote, m, net))

-----------------------------------------------------------------------------
(* MeiliSearchResults._do_search: merge, score, sort, materialize, slice *)

\* get_descendant_models: the registered models that are subclasses of model
get_descendant_models(registry, model) ==
    LET sub(other_model) == issubclass(other_model, model)
    IN  SelectSeq(registry, sub)

\* `item not in results` is Python's list membership: equality of whole dicts
NotIn(item, res) == \A i \in DOMAIN res : res[i] # item

\* for item in rv['hits']: if item not in results: results.append(item)
RECURSIVE Merge(_, _)
Merge(res, hits) ==
    IF hits = <<>> THEN res
    ELSE Merge(IF NotIn(Head(hits), res) THEN Append(res, Head(hits)) ELSE res,
               Tail(hits))

RECURSIVE Digits(_)
Digits(n) == IF n < 10 THEN 1 ELSE 1 + Digits(n \div 10)

\* len(str(span)) of {'start': s, 'length': l}
SpanStrLen(span) == 10 + Digits(span.start) + 12 + Digits(span.length) + 1

\* len(str(spans)) of a list: brackets, the items, ", " between them
RECURSIVE SpansLen(_)
SpansLen(spans) ==
    IF spans = <<>> THEN 0
    ELSE SpanStrLen(Head(spans)) + (IF Len(spans) > 1 THEN 2 ELSE 0) + SpansLen(Tail(spans))

FieldNameLen(field) == IF field = "title" THEN 5 ELSE 4

\* len(str(entry)) of 'field': [spans]
EntryStrLen(e) == FieldNameLen(e.field) + 2 + 2 + 2 + SpansLen(e.spans)

RECURSIVE EntriesLen(_)
EntriesLen(info) ==
    IF info = <<>> THEN 0
    ELSE EntryStrLen(Head(info)) + (IF Len(info) > 1 THEN 2 ELSE 0) + EntriesLen(Tail(info))

\* item['score'] = len(str(item['_matchesInfo']))
Score(matchesInfo) == 2 + EntriesLen(matchesInfo)

Scored(res) ==
    [i \in DOMAIN res |->
        [id |-> res[i].id, matchesInfo |-> res[i].matchesInfo,
         score |-> Score(res[i].matchesInfo)]]

\* a sort that forgot reverse=True: ascending by score
RECURSIVE InsertByScore_ascending(_, _)
InsertByScore_ascending(seq, x) ==
    IF seq = <<>> THEN <<x>>
    ELSE IF Head(seq).score <= x.score
         THEN <<Head(seq)>> \o InsertByScore_ascending(Tail(seq), x)
    ELSE <<x>> \o seq

\* where Python's stable sort, reverse=True, puts x among the sorted items
RECURSIVE InsertByScore(_, _)
InsertByScore(seq, x) ==
    IF seq = <<>> THEN <<x>>
    ELSE IF Head(seq).score >= x.score THEN <<Head(seq)>> \o InsertByScore(Tail(seq), x)
    ELSE <<x>> \o seq

\* sorted(results, key=itemgetter('score'), reverse=True)
RECURSIVE SortedFrom(_, _)
SortedFrom(acc, rest) ==
    IF rest = <<>> THEN acc
    ELSE SortedFrom(InsertByScore(acc, Head(rest)), Tail(rest))

\* results left in merge order: the sort is missing
sorted_results_unsorted(res) == res

sorted_results(res) == SortedFrom(<<>>, res)

sorted_ids(sorted) == [i \in DOMAIN sorted |-> sorted[i].id]

\* Case(*[When(pk=pk, then=pos) ...]): the position of the first When that matches
CasePos(ids, pk) == CHOOSE i \in DOMAIN ids : ids[i] = pk /\ \A j \in 1 .. (i - 1) : ids[j] # pk

\* the rows of S as a sequence, by ascending key[row] (keys are distinct on S)
RECURSIVE OrderBy(_, _)
OrderBy(S, key) ==
    IF S = {} THEN <<>>
    ELSE LET first == CHOOSE x \in S : \A y \in S : key[x] <= key[y]
         IN  <<first>> \o OrderBy(S \ {first}, key)

\* qc.queryset.filter(pk__in=sorted_ids), ordered by the Case when
\* order_by_relevance, else in the datastore's order (by primary key)
Materialized(ids, rows, model, order_by_relevance) ==
    LET queryset == InstancesOf(model) \cap rows
        found == {pk \in queryset : \E i \in DOMAIN ids : ids[i] = pk}
        preserved_order == [pk \in found |-> CasePos(ids, pk)]
        default_order == [pk \in found |-> pk]
    IN  IF order_by_relevance THEN OrderBy(found, preserved_order)
        ELSE OrderBy(found, default_order)

Min(a, b) == IF a < b THEN a ELSE b

NoStop == <<>>

\* results.distinct()[self.start:self.stop]
Sliced(seq, w) ==
    LET stop == IF w.stop = NoStop THEN Len(seq) ELSE Min(w.stop[1], Len(seq))
    IN  SubSeq(seq, w.start + 1, stop)

Windows ==
    {[start |-> a, stop |-> b] :
        a \in 0 .. MaxStop, b \in {NoStop} \cup {<<n>> : n \in 0 .. MaxStop}}

\* the slices BaseSearchResults._set_limits can leave: start <= stop
ValidWindow(w) == IF w.stop = NoStop THEN TRUE ELSE w.start <= w.stop[1]

\* a validation that lost its empty-query check
Rejects_unindexed_only(model, query) == ~class_is_indexed(model)

\* MeiliSearchBackend._search: the two early returns of EmptySearchResults()
Rejects(model, query) == ~class_is_indexed(model) \/ query = ""

-----------------------------------------------------------------------------
(* A search request: MeiliSearchBackend.search, then the evaluation of the  *)
(* results object it returns                                               *)

NoReq == [query |-> "", model |-> "", order_by_relevance |-> TRUE, count |-> FALSE]
NoWindow == [start |-> 0, stop |-> NoStop]
NoCall == [op |-> "", model |-> "", outcome |-> "ok", raised |-> {}, handle |-> NoHandle,
           dropped |-> {}]

\* MeiliSearchBackend.search, through _search: EmptySearchResults() for a model
\* that is not indexed or an empty query, else results_class(self, search_query),
\* whose evaluation starts with models = get_descendant_models(model)
Search ==
    /\ pc = "Idle"
    /\ \E q \in Queries, m \in Models, obr \in BOOLEAN, cnt \in BOOLEAN :
           req' = [query |-> q, model |-> m, order_by_relevance |-> obr, count |-> cnt]
    /\ IF Rejects(req'.model, req'.query)
       THEN pc' = "Rejected" /\ todo' = <<>>
       ELSE pc' = "FanningOut" /\ todo' = get_descendant_models(appModels, req'.model)
    /\ last' = [NoCall EXCEPT !.op = "search", !.model = req'.model]
    /\ UNCHANGED <<remote, db, appModels, results, output, window, counted,
                   calls, dbReads, raceVars>>

\* one turn of `for m in models`: get_index_for_model(m), index.search(terms), merge
FanOut ==
    /\ pc = "FanningOut"
    /\ \E net \in SUBSET {"get_settings", "create_index", "search"} :
        LET idx == get_index_for_model(remote, Head(todo), net)
            made == IF "get_settings" \in idx.raised THEN 2 ELSE 1
        IN  /\ remote' = idx.remote
            /\ IF ~idx.ok
               THEN /\ pc' = "Failed"
                    /\ calls' = calls + made
                    /\ last' = [last EXCEPT !.outcome = "error", !.raised = idx.raised]
                    /\ UNCHANGED <<todo, results>>
               ELSE IF SearchRaises(idx.remote, idx.handle, net)
               THEN /\ pc' = "Failed"
                    /\ calls' = calls + made + 1
                    /\ last' = [last EXCEPT !.outcome = "error",
                                            !.raised = idx.raised \cup {"search"}]
                    /\ UNCHANGED <<todo, results>>
               ELSE /\ results' = Merge(results, RemoteSearch(idx.remote, idx.handle, req.query))
                    /\ todo' = Tail(todo)
                    /\ pc' = IF Tail(todo) = <<>> THEN "Scoring" ELSE "FanningOut"
                    /\ calls' = calls + made + 1
                    /\ UNCHANGED last
    /\ UNCHANGED <<db, appModels, req, output, window, counted, dbReads, raceVars>>

\* item['score'] = ... for every item, then sorted(..., reverse=True)
ScoreAndSort ==
    /\ pc = "Scoring"
    /\ results' = sorted_results(Scored(results))
    /\ pc' = "Materializing"
    /\ UNCHANGED <<remote, db, appModels, last, req, todo, output, window, counted,
                   calls, dbReads, raceVars>>

\* the queryset of _do_search, sliced by the window of the results object;
\* _do_count returns its length
DoSearchOutput(res, rows, r, w) ==
    Sliced(Materialized(sorted_ids(res), rows, r.model, r.order_by_relevance), w)

\* the rows the datastore holds when the queryset is evaluated: every
\* object, or all but one (its index entry is stale)
RowSets == {Ids} \cup {Ids \ {id} : id \in Ids}

\* a count taken before the slice
do_count_unsliced(res, rows, r, w) ==
    Len(Materialized(sorted_ids(res), rows, r.model, r.order_by_relevance))

\* MeiliSearchResults._do_count: len(self._do_search())
do_count(res, rows, r, w) == Len(DoSearchOutput(res, rows, r, w))

Materialize ==
    /\ pc = "Materializing"
    /\ \E w \in Windows, rows \in RowSets :
           /\ ValidWindow(w)
           /\ window' = w
           /\ db' = rows
           /\ output' = DoSearchOutput(results, rows, req, w)
    /\ counted' = IF req.count THEN do_count(results, db', req, window') ELSE 0
    /\ dbReads' = dbReads + 1
    /\ pc' = "Done"
    /\ UNCHANGED <<remote, appModels, last, req, todo, results, calls, raceVars>>

\* the caller is done with the results object
Finish ==
    /\ pc \in {"Done", "Rejected", "Failed"}
    /\ pc' = "Idle"
    /\ req' = NoReq
    /\ todo' = <<>>
    /\ results' = <<>>
    /\ output' = <<>>
    /\ window' = NoWindow
    /\ counted' = 0
    /\ calls' = 0
    /\ dbReads' = 0
    /\ db' = Ids
    /\ UNCHANGED <<remote, appModels, last, raceVars>>

-----------------------------------------------------------------------------
(* The sequential specification: one backend, one caller *)

\* the registry orders: the indexed models in either order
AppOrders == {<<"Article", "BlogPost", "Memo">>, <<"BlogPost", "Article", "Memo">>}

NoRace == [c \in 1 .. NumCallers |-> "off"]

Init ==
    /\ remote = [uid \in Uids |-> NoIndex]
    /\ db = Ids
    /\ appModels \in AppOrders
    /\ last = NoCall
    /\ pc = "Idle"
    /\ req = NoReq
    /\ todo = <<>>
    /\ results = <<>>
    /\ output = <<>>
    /\ window = NoWindow
    /\ counted = 0
    /\ calls = 0
    /\ dbReads = 0
    /\ cpc = NoRace
    /\ cmodel = [c \in 1 .. NumCallers |-> ""]

Next ==
    \/ AddType
    \/ Add
    \/ AddBulk
    \/ Delete
    \/ RefreshIndex
    \/ Rebuild
    \/ Search
    \/ FanOut
    \/ ScoreAndSort
    \/ Materialize
    \/ Finish

Spec == Init /\ [][Next]_vars

-----------------------------------------------------------------------------
(* The concurrent specification: several callers (worker processes sharing  *)
(* the remote service) inside get_index_for_model or a rebuild at the same *)
(* time, one remote call per step. The service is reliable here, so every  *)
(* exception comes from the state of the indexes.                          *)

Callers == 1 .. NumCallers

\* a caller enters _set_index(model), at line 56
EnterSetIndex(c) ==
    /\ cpc[c] = "idle"
    /\ \E m \in IndexedModels : cmodel' = [cmodel EXCEPT ![c] = m]
    /\ cpc' = [cpc EXCEPT ![c] = "get_settings"]
    /\ UNCHANGED <<remote, db, appModels, last, reqVars>>

\* a caller enters a rebuild of model: index.delete() comes first
EnterRebuild(c) ==
    /\ cpc[c] = "idle"
    /\ \E m \in IndexedModels : cmodel' = [cmodel EXCEPT ![c] = m]
    /\ cpc' = [cpc EXCEPT ![c] = "delete_index"]
    /\ UNCHANGED <<remote, db, appModels, last, reqVars>>

\* index.delete() of the rebuild
StepDelete(c) ==
    /\ cpc[c] = "delete_index"
    /\ IF DeleteIndexRaises(remote, _get_label(cmodel[c]), {})
       THEN cpc' = [cpc EXCEPT ![c] = "delete_raised"] /\ UNCHANGED remote
       ELSE /\ cpc' = [cpc EXCEPT ![c] = "get_settings"]
            /\ remote' = RemoteDelete(remote, _get_label(cmodel[c]))
    /\ UNCHANGED <<cmodel, db, appModels, last, reqVars>>

\* the try of _set_index: get_settings(); the except leads to create_index
StepGetSettings(c) ==
    /\ cpc[c] = "get_settings"
    /\ cpc' = [cpc EXCEPT ![c] =
                  IF GetSettingsRaises(remote, _get_label(cmodel[c]), {})
                  THEN "create_index" ELSE "returned"]
    /\ UNCHANGED <<remote, cmodel, db, appModels, last, reqVars>>

\* the except of _set_index: create_index(); what it raises leaves _set_index
StepCreate(c) ==
    /\ cpc[c] = "create_index"
    /\ IF CreateIndexRaises(remote, _get_label(cmodel[c]), {})
       THEN cpc' = [cpc EXCEPT ![c] = "create_raised"] /\ UNCHANGED remote
       ELSE /\ cpc' = [cpc EXCEPT ![c] = "returned"]
            /\ remote' = RemoteCreate(remote, _get_label(cmodel[c]))
    /\ UNCHANGED <<cmodel, db, appModels, last, reqVars>>

\* the caller has its handle or its exception and goes on
Leave(c) ==
    /\ cpc[c] \in {"returned", "create_raised", "delete_raised"}
    /\ cpc' = [cpc EXCEPT ![c] = "idle"]
    /\ cmodel' = [cmodel EXCEPT ![c] = ""]
    /\ UNCHANGED <<remote, db, appModels, last, reqVars>>

RaceInit ==
    /\ remote = [uid \in Uids |-> NoIndex]
    /\ db = Ids
    /\ appModels = <<"Article", "BlogPost", "Memo">>
    /\ last = NoCall
    /\ pc = "Idle"
    /\ req = NoReq
    /\ todo = <<>>
    /\ results = <<>>
    /\ output = <<>>
    /\ window = NoWindow
    /\ counted = 0
    /\ calls = 0
    /\ dbReads = 0
    /\ cpc = [c \in Callers |-> "idle"]
    /\ cmodel = [c \in Callers |-> ""]

RaceNext ==
    \/ \E c \in Callers : EnterSetIndex(c)
    \/ \E c \in Callers : EnterRebuild(c)
    \/ \E c \in Callers : StepDelete(c)
    \/ \E c \in Callers : StepGetSettings(c)
    \/ \E c \in Callers : StepCreate(c)
    \/ \E c \in Callers : Leave(c)

SpecRace == RaceInit /\ [][RaceNext]_vars

-----------------------------------------------------------------------------
(* Properties *)

Evaluated == pc \in {"Scoring", "Materializing", "Done"}

\* C1: after the fan-out, no two hits of the merged list have the same id.
C1_NoTwoHitsShareAnId ==
    Evaluated =>
        \A i, j \in DOMAIN results : i # j => results[i].id # results[j].id

\* the highest score among the retained hits of the record pk
BestScore(pk) ==
    LET scores == {results[k].score : k \in {k \in DOMAIN results : results[k].id = pk}}
    IN  CHOOSE x \in scores : \A y \in scores : y <= x

\* C2: with order_by_relevance, a record of the output whose hit scores higher
\* than another record's comes before it.
C2_HigherScoreComesFirst ==
    (pc = "Done" /\ req.order_by_relevance) =>
        \A i, j \in DOMAIN output :
            BestScore(output[i]) > BestScore(output[j]) => i < j

\* C2 witness: an output in relevance order that is not primary-key order.
C2_Witness ==
    /\ pc = "Done"
    /\ req.order_by_relevance
    /\ \E i, j \in DOMAIN output :
           /\ i < j
           /\ output[i] > output[j]
           /\ BestScore(output[i]) > BestScore(output[j])

\* C3: a request for a model that is not indexed, or with the empty query, is
\* Rejected with an empty result, and makes no remote call and no datastore query.
C3_RejectedWithoutAccess ==
    (pc # "Idle" /\ (~class_is_indexed(req.model) \/ req.query = "")) =>
        /\ pc = "Rejected"
        /\ output = <<>>
        /\ results = <<>>
        /\ todo = <<>>
        /\ calls = 0
        /\ dbReads = 0

\* C3 witness: the empty query on an indexed model whose index holds documents.
C3_Witness ==
    /\ pc = "Rejected"
    /\ req.query = ""
    /\ class_is_indexed(req.model)
    /\ remote[_get_label(req.model)].docs # {}

\* C4: no interleaving of concurrent get-or-create calls ends with the
\* "already exists" failure of create_index returned to a caller.
C4_RaceNeverRaises == \A c \in Callers : cpc[c] # "create_raised"

\* C5: a get-or-create (add_type) that follows a successful one for the same
\* model returns the same index identifier and does not raise.
C5_SecondGetOrCreateSucceeds ==
    [][(/\ last.op = "add_type"
        /\ last.outcome = "ok"
        /\ last'.op = "add_type"
        /\ last'.model = last.model)
       => (/\ last'.outcome = "ok"
           /\ last'.handle = last.handle
           /\ last'.handle = _get_label(last.model))]_vars

\* a direct query against the index uid returns zero hits, whatever the query
NoHits(r, uid) == \A q \in Queries : RemoteSearch(r, uid, q) = <<>>

\* C6: after a rebuild the index exists under the same identifier, holds none of
\* the documents it held before and answers every query with zero hits; and an
\* index that answers every query with zero hits does so until documents are added.
C6_RebuildLeavesAnEmptyIndex ==
    /\ [](  (last.op = "rebuild" /\ last.outcome = "ok") =>
                /\ last.handle = _get_label(last.model)
                /\ remote[last.handle].exists
                /\ remote[last.handle].docs \cap last.dropped = {}
                /\ NoHits(remote, last.handle))
    /\ [][\A uid \in Uids :
            (remote[uid].exists /\ NoHits(remote, uid) /\ ~NoHits(remote', uid))
                => last'.op \in {"add", "add_bulk"}]_vars

\* C6 witness: a rebuild that removed documents has returned.
C6_Witness ==
    /\ last.op = "rebuild"
    /\ last.outcome = "ok"
    /\ last.dropped # {}

\* the materialized sequence before the slice
Unwindowed == Materialized(sorted_ids(results), db, req.model, req.order_by_relevance)

\* C7 as stated: the count is the length of the unwindowed sequence, whatever
\* the window.
C7_CountIgnoresWindow ==
    (pc = "Done" /\ req.count) => counted = Len(Unwindowed)

\* C7 amended: the count is the number of positions of the unwindowed sequence
\* that lie inside the window [start, stop); with no window it is the full length.
C7_CountIsWindowed ==
    (pc = "Done" /\ req.count) =>
        /\ counted = Cardinality({i \in DOMAIN Unwindowed :
                         /\ i > window.start
                         /\ IF window.stop = NoStop THEN TRUE ELSE i <= window.stop[1]})
        /\ window = NoWindow => counted = Len(Unwindowed)

\* C7 witness: a count taken through a window that cuts the sequence.
C7_Witness ==
    /\ pc = "Done"
    /\ req.count
    /\ counted > 0
    /\ counted < Len(Unwindowed)

FailurePropagates == {"create_index", "add_documents", "delete_document"}

\* C8: when create_index, add_documents or delete_document raises during
\* add_type, add, add_bulk or delete, the call ends in an error, returns no
\* handle and has changed no document.
C8_RemoteErrorsPropagate ==
    [][(/\ last'.op \in {"add_type", "add", "add_bulk", "delete"}
        /\ last'.raised \cap FailurePropagates # {})
       => (/\ last'.outcome = "error"
           /\ last'.handle = NoHandle
           /\ \A uid \in Uids : remote'[uid].docs = remote[uid].docs)]_vars

\* C8 witness: an add whose add_documents raised has ended in an error.
C8_Witness ==
    /\ last.op = "add"
    /\ "add_documents" \in last.raised
    /\ last.outcome = "error"

\* the merged list when the models are queried in the given order
RECURSIVE MergedIn(_, _)
MergedIn(order, acc) ==
    IF order = <<>> THEN acc
    ELSE MergedIn(Tail(order),
                  Merge(acc, RemoteSearch(remote, _get_label(Head(order)), req.query)))

\* the output of the same request had the models been queried in that order
OutputIn(order) ==
    DoSearchOutput(sorted_results(Scored(MergedIn(order, <<>>))), db, req, window)

\* the orders in which the models of the request can be queried
QueryOrders ==
    LET ms == get_descendant_models(appModels, req.model)
    IN  {o \in UNION {[1 .. Len(ms) -> IndexedModels]} :
            /\ \A i, j \in DOMAIN o : i # j => o[i] # o[j]
            /\ \A i \in DOMAIN o : \E j \in DOMAIN ms : ms[j] = o[i]}

\* C9 as stated: the output is the same whatever the order of the fan-out.
C9_OutputIgnoresQueryOrder ==
    pc = "Done" => \A o \in QueryOrders : OutputIn(o) = output

\* no two retained hits of different ids have the same score
NoTiesAcrossIds ==
    \A i, j \in DOMAIN results :
        results[i].id # results[j].id => results[i].score # results[j].score

\* C9 amended: the output is the same whatever the order of the fan-out when
\* order_by_relevance is off or no two hits of different ids have equal scores.
C9_OutputIgnoresQueryOrderWithoutTies ==
    (pc = "Done" /\ (~req.order_by_relevance \/ NoTiesAcrossIds)) =>
        \A o \in QueryOrders : OutputIn(o) = output

\* C9 witness: two orders that merge the hits differently and give one output.
C9_Witness ==
    /\ pc = "Done"
    /\ req.order_by_relevance
    /\ NoTiesAcrossIds
    /\ Len(output) >= 2
    /\ \E o1, o2 \in QueryOrders : MergedIn(o1, <<>>) # MergedIn(o2, <<>>)

\* C10: an existing remote index stops existing only in a step of rebuild.
C10_OnlyRebuildDeletesAnIndex ==
    [][\A uid \in Uids :
          (remote[uid].exists /\ ~remote'[uid].exists) => last'.op = "rebuild"]_vars

\* C10 witness: a delete has returned and the index it used, which holds
\* documents, is still there.
C10_Witness ==
    /\ last.op = "delete"
    /\ last.outcome = "ok"
    /\ remote[last.handle].exists
    /\ remote[last.handle].docs # {}

====
